---------------------------- MODULE Spec2Model ----------------------------
(***************************************************************************)
(* Size-distribution combination engine of py_aps_smps                     *)
(* (lib/sd_processing/structure.py): calc_bin_boundaries and               *)
(* combine_SMPS_APS_sd, with its gap interpolation and overlap merging.    *)
(*                                                                         *)
(* Numbers.  Counts and densities (dn, dndlogd) are exact rationals        *)
(* <<n, d>>; <<0, 0>> is NaN and <<1, 0>> is +inf.  Diameters are integers *)
(* in a linear unit chosen so that every boundary is even and every bin    *)
(* centre (a midpoint of two boundaries) is an integer.  log10 and 10^x    *)
(* are fixed-point: a logarithm is an integer number of ticks, Ticks       *)
(* to the decade, read from the table Mantissa (10^(j/12), j = 0..11) and  *)
(* interpolated linearly between table entries.                            *)
(***************************************************************************)
EXTENDS Integers, Sequences, FiniteSets, TLC

(* ------------------------------ bounds --------------------------------- *)
\* most bins an instrument delivers
MaxBins == 4
\* widest smps bin, in grid steps of 1/12 decade; an aps bin may be one step wider
MaxWidth == 3
\* farthest the first aps boundary lies from the last smps boundary, either way
MaxShift == 3
\* largest bin_mean_diameter handed to calc_bin_boundaries
MaxCenter == 12

(* ----------------------------- rationals ------------------------------- *)
RECURSIVE GCD(_, _)
GCD(a, b) == IF b = 0 THEN a ELSE GCD(b, a % b)

Abs(a) == IF a < 0 THEN -a ELSE a

NaN == <<0, 0>>
Inf == <<1, 0>>
IsNum(q) == q[2] # 0

\* the rational n/d in lowest terms with a positive denominator
Frac(n, d) ==
    IF d = 0 THEN (IF n = 0 THEN NaN ELSE Inf)
    ELSE LET g == GCD(Abs(n), Abs(d))
             sg == IF d < 0 THEN -1 ELSE 1
         IN  <<sg * (n \div g), sg * (d \div g)>>

Rat(n) == <<n, 1>>

RAdd(p, q) ==
    IF ~IsNum(p) \/ ~IsNum(q) THEN (IF p = NaN \/ q = NaN THEN NaN ELSE Inf)
    ELSE LET g == GCD(p[2], q[2])
         IN  Frac(p[1] * (q[2] \div g) + q[1] * (p[2] \div g), (p[2] \div g) * q[2])

RNeg(p) == <<-p[1], p[2]>>
RSub(p, q) == RAdd(p, RNeg(q))

RMul(p, q) ==
    IF ~IsNum(p) \/ ~IsNum(q) THEN NaN
    ELSE LET a == Frac(p[1], q[2])
             b == Frac(q[1], p[2])
         IN  <<a[1] * b[1], a[2] * b[2]>>

RDiv(p, q) ==
    IF ~IsNum(p) \/ ~IsNum(q) THEN NaN
    ELSE IF q[1] = 0 THEN (IF p[1] = 0 THEN NaN ELSE Inf)
    ELSE RMul(p, Frac(q[2], q[1]))

RLt(p, q) == p[1] * q[2] < q[1] * p[2]
RLe(p, q) == p[1] * q[2] <= q[1] * p[2]

RECURSIVE RSum(_)
RSum(qs) == IF qs = <<>> THEN Rat(0) ELSE RAdd(Head(qs), RSum(Tail(qs)))

(* ------------------------ fixed-point log10 / 10^x --------------------- *)
\* 10^(j/12) for j = 0..11, to three figures, rounded to even
Mantissa == <<100, 122, 146, 178, 216, 262, 316, 384, 464, 562, 682, 826>>
StepsPerDecade == Len(Mantissa)
\* ticks to the grid step
Sub == 5 * StepsPerDecade
\* ticks to the decade
Ticks == Sub * StepsPerDecade

RECURSIVE Ten(_)
Ten(k) == IF k = 0 THEN 1 ELSE 10 * Ten(k - 1)

\* the diameter at grid step e >= 0
Lin(e) == Mantissa[(e % StepsPerDecade) + 1] * Ten(e \div StepsPerDecade)

\* 10^x for x = l ticks
Pow10(l) ==
    LET e == l \div Sub
        r == l % Sub
    IN  Lin(e) + 2 * ((r * (Lin(e + 1) - Lin(e))) \div (2 * Sub))

RECURSIVE GridBelow(_, _)
GridBelow(x, e) == IF Lin(e + 1) > x THEN e ELSE GridBelow(x, e + 1)

\* log10(x) in ticks, for a diameter x >= Lin(0)
Log10(x) ==
    LET e == GridBelow(x, 0)
    IN  Sub * e + ((x - Lin(e)) * Sub) \div (Lin(e + 1) - Lin(e))

\* round() of the rational n/d, d > 0: to nearest, ties to even
Round(n, d) ==
    LET q == n \div d
        r == 2 * (n - q * d)
    IN  IF r < d THEN q
        ELSE IF r > d THEN q + 1
        ELSE IF q % 2 = 0 THEN q ELSE q + 1

(* --------------------------- sequences --------------------------------- *)
Range(s) == {s[i] : i \in DOMAIN s}

RECURSIVE SetToSortedSeq(_)
SetToSortedSeq(S) ==
    IF S = {} THEN <<>>
    ELSE LET m == CHOOSE x \in S : \A y \in S : x <= y
         IN  <<m>> \o SetToSortedSeq(S \ {m})

Max(S) == CHOOSE x \in S : \A y \in S : y <= x
Min(S) == CHOOSE x \in S : \A y \in S : x <= y

\* rows of s in ascending dpes, rows of equal dpes in their order in s
RECURSIVE InsertByDpes(_, _)
InsertByDpes(row, s) ==
    IF s = <<>> THEN <<row>>
    ELSE IF row.dpes < Head(s).dpes THEN <<row>> \o s
    ELSE <<Head(s)>> \o InsertByDpes(row, Tail(s))

RECURSIVE sort_values(_)
sort_values(s) ==
    IF s = <<>> THEN <<>>
    ELSE InsertByDpes(s[Len(s)], sort_values(SubSeq(s, 1, Len(s) - 1)))

(* ------------------------------- state --------------------------------- *)
VARIABLES
    pc,                 \* where the call stands
    bin_mean_diameter,  \* calc_bin_boundaries: argument
    channel_resolution, \* calc_bin_boundaries: argument, bins per decade
    bin_boundaries,     \* calc_bin_boundaries: the pair returned
    in_smps, in_aps,    \* the two distributions as the caller built them
    sd_smps, sd_aps,    \* the caller's two distributions, as they are now
    merge_overlap, interpolate_gap,
    sd_combined,
    flag_overlap, flag_gap,
    aps_overlap, smps_overlap,  \* the rows selected before the merge loop
    s,                  \* position of the merge loop in smps_overlap
    merged_indices

vars == <<pc, bin_mean_diameter, channel_resolution, bin_boundaries, in_smps, in_aps,
          sd_smps, sd_aps, merge_overlap, interpolate_gap, sd_combined, flag_overlap,
          flag_gap, aps_overlap, smps_overlap, s, merged_indices>>

(* ----------------------- calc_bin_boundaries --------------------------- *)
\* 10^(sign / res) for a channel resolution res = <<n, d>> bins per decade
TenToInverse(res, sign) ==
    LET q == Frac(Pow10(Round(Ticks * res[2], res[1])), Lin(0))
    IN  IF sign > 0 THEN q ELSE Frac(q[2], q[1])

\* a sign slip in the second exponent
calc_bin_boundaries_same_sign(mean_diameter, res) ==
    LET bin_lower_boundary ==
            RDiv(Rat(2 * mean_diameter), RAdd(TenToInverse(res, 1), Rat(1)))
    IN  <<bin_lower_boundary, bin_lower_boundary>>

calc_bin_boundaries(mean_diameter, res) ==
    LET bin_lower_boundary ==
            RDiv(Rat(2 * mean_diameter), RAdd(TenToInverse(res, 1), Rat(1)))
        bin_upper_boundary ==
            RDiv(Rat(2 * mean_diameter), RAdd(TenToInverse(res, -1), Rat(1)))
    IN  <<bin_lower_boundary, bin_upper_boundary>>

CalcBinBoundaries ==
    /\ pc = "calc"
    /\ bin_boundaries' = calc_bin_boundaries(bin_mean_diameter, channel_resolution)
    /\ pc' = "calculated"
    /\ UNCHANGED <<bin_mean_diameter, channel_resolution, in_smps, in_aps, sd_smps,
                   sd_aps, merge_overlap, interpolate_gap, sd_combined, flag_overlap,
                   flag_gap, aps_overlap, smps_overlap, s, merged_indices>>

(* ------------------------------ inputs --------------------------------- *)
\* A distribution as the loader delivers it: n contiguous bins of w grid steps
\* from grid step start, each centre the mean of its boundaries, counts on a
\* ramp, the density normalised with a nominal width of w + skew steps.
MakeSd(n, start, w, slope, skew) ==
    [i \in 1..n |->
        LET lo == Lin(start + (i - 1) * w)
            up == Lin(start + i * w)
            dn == Rat(1 + slope * (i - 1))
        IN  [dpes |-> (lo + up) \div 2, dpes_lower |-> lo, dpes_upper |-> up,
             dn |-> dn, dndlogd |-> RMul(dn, Frac(StepsPerDecade, w + skew)),
             flag |-> "none"]]

\* count ramps of the inputs: dn of bin i is 1 + slope * (i - 1)
Slopes == {0, 1}
\* dn and dndlogd are two columns of the caller's frame; the loader sets dndlogd to
\* dn * channel_res, which is dn over the bin's log width only as far as the nominal
\* resolution and rounding allow.  skew is that difference, in grid steps of width.
Skews == {0, 1}

Resolutions == {Frac(StepsPerDecade, w) : w \in 1..(2 * StepsPerDecade)}

InitCalc ==
    /\ pc = "calc"
    /\ bin_mean_diameter \in 1..MaxCenter
    /\ channel_resolution \in Resolutions
    /\ in_smps = <<>> /\ in_aps = <<>>
    /\ merge_overlap = FALSE /\ interpolate_gap = FALSE

InitCombine ==
    /\ pc = "start"
    /\ bin_mean_diameter = 0
    /\ channel_resolution = NaN
    /\ \E n1 \in 0..MaxBins, n2 \in 0..MaxBins, w1 \in 1..MaxWidth,
          w2 \in 1..(MaxWidth + 1), shift \in (-MaxShift)..MaxShift,
          slope \in Slopes, skew \in Skews :
          /\ n1 * w1 + shift >= 0
          /\ n1 = 0 => w1 = 1
          /\ n2 = 0 => (w2 = 1 /\ shift = 0)
          /\ (n1 < 2 /\ n2 < 2) => slope = 0
          /\ in_smps = MakeSd(n1, 0, w1, slope, skew)
          /\ in_aps = MakeSd(n2, n1 * w1 + shift, w2, slope, skew)
    /\ merge_overlap \in BOOLEAN
    /\ interpolate_gap \in BOOLEAN

Init ==
    /\ InitCalc \/ InitCombine
    /\ bin_boundaries = <<NaN, NaN>>
    /\ sd_smps = in_smps /\ sd_aps = in_aps
    /\ sd_combined = <<>>
    /\ flag_overlap = FALSE /\ flag_gap = FALSE
    /\ aps_overlap = <<>> /\ smps_overlap = <<>>
    /\ s = 1
    /\ merged_indices = <<>>

(* ------------------- combine_SMPS_APS_sd: tag, classify ---------------- *)
\* the frame rebuilt around the flag, its density column lost
SetFlagLosingDensity(sd, f) ==
    [i \in DOMAIN sd |-> [sd[i] EXCEPT !.flag = f, !.dndlogd = NaN]]

SetFlag(sd, f) == [i \in DOMAIN sd |-> [sd[i] EXCEPT !.flag = f]]

\* lines 45-47: the flag column is written into the caller's frames
Tag ==
    /\ pc = "start"
    /\ sd_aps' = SetFlag(sd_aps, "aps")
    /\ sd_smps' = SetFlag(sd_smps, "smps")
    /\ pc' = "tagged"
    /\ UNCHANGED <<bin_mean_diameter, channel_resolution, bin_boundaries, in_smps,
                   in_aps, merge_overlap, interpolate_gap, sd_combined, flag_overlap,
                   flag_gap, aps_overlap, smps_overlap, s, merged_indices>>

Uppers(sd) == {sd[i].dpes_upper : i \in DOMAIN sd}
Lowers(sd) == {sd[i].dpes_lower : i \in DOMAIN sd}

\* lines 49-65: concatenate, then compare the two ranges; max() and min() of an
\* empty column raise ValueError
Classify ==
    /\ pc = "tagged"
    /\ sd_combined' = sd_smps \o sd_aps
    /\ IF sd_smps = <<>> \/ sd_aps = <<>>
       THEN /\ pc' = "error"
            /\ UNCHANGED <<flag_overlap, flag_gap>>
       ELSE /\ pc' = "classified"
            /\ flag_overlap' = (Max(Uppers(sd_smps)) > Min(Lowers(sd_aps)))
            /\ flag_gap' = (Max(Uppers(sd_smps)) < Min(Lowers(sd_aps)))
    /\ UNCHANGED <<bin_mean_diameter, channel_resolution, bin_boundaries, in_smps,
                   in_aps, sd_smps, sd_aps, merge_overlap, interpolate_gap, aps_overlap,
                   smps_overlap, s, merged_indices>>

(* ------------------- combine_SMPS_APS_sd: gap filling ------------------ *)
edge_average_window == 3

Dpes(sd) == {sd[i].dpes : i \in DOMAIN sd}

\* bins per decade along dpes; a single-bin frame divides by zero and gives inf
get_channel_resolution(data) ==
    Frac(Len(data) * Ticks, Log10(Max(Dpes(data))) - Log10(Min(Dpes(data))))

\* (a + b) // 2; inf // 2 is nan
get_interpol_resolution(smps, aps) ==
    LET sum == RAdd(get_channel_resolution(smps), get_channel_resolution(aps))
    IN  IF IsNum(sum) THEN Rat(sum[1] \div (2 * sum[2])) ELSE NaN

\* np.logspace(log10(x_start), log10(x_end), num, endpoint=False)
logspace(start, stop, num) ==
    [i \in 1..num |-> Pow10(start + ((i - 1) * (stop - start)) \div num)]

\* res is a whole number of bins per decade
get_bin_boundaries_in_interval(x_start, x_end, res) ==
    LET decades_in_x_range == Log10(x_end) - Log10(x_start)
        bin_num == Round(res[1] * decades_in_x_range, Ticks)
        bin_bound_lower == logspace(Log10(x_start), Log10(x_end), bin_num)
        bin_bound_upper ==
            (IF bin_num = 0 THEN <<>> ELSE Tail(bin_bound_lower)) \o <<x_end>>
    IN  <<bin_bound_lower, bin_bound_upper>>

\* mean of the dndlogd that are numbers among the rows labelled lo..hi
MeanDndlogd(sd, lo, hi) ==
    LET rows == SetToSortedSeq({i \in DOMAIN sd : lo <= i /\ i <= hi /\ IsNum(sd[i].dndlogd)})
    IN  RDiv(RSum([k \in DOMAIN rows |-> sd[rows[k]].dndlogd]), Rat(Len(rows)))

\* line 92: idxmax() gives the first row that holds the largest dpes_upper
edge_bin_min_idx(sd_gapped) ==
    LET smps_rows == {i \in DOMAIN sd_gapped : sd_gapped[i].flag = "smps"}
    IN  Min({i \in smps_rows :
                \A j \in smps_rows : sd_gapped[j].dpes_upper <= sd_gapped[i].dpes_upper})

\* line 93
edge_bin_max_idx(sd_gapped) ==
    LET aps_rows == {i \in DOMAIN sd_gapped : sd_gapped[i].flag = "aps"}
    IN  Min({i \in aps_rows :
                \A j \in aps_rows : sd_gapped[i].dpes_lower <= sd_gapped[j].dpes_lower})

\* line 98: .loc[a:b] takes the rows labelled a to b, both ends included
edge_bin_min_dndlogd_avg(sd_gapped) ==
    MeanDndlogd(sd_gapped, edge_bin_min_idx(sd_gapped) - edge_average_window,
                edge_bin_min_idx(sd_gapped))

\* line 99
edge_bin_max_dndlogd_avg(sd_gapped) ==
    MeanDndlogd(sd_gapped, edge_bin_max_idx(sd_gapped),
                edge_bin_max_idx(sd_gapped) + edge_average_window)

interpolate_dndlogd_gap(sd_gapped) ==
    LET lo == edge_bin_min_idx(sd_gapped)
        hi == edge_bin_max_idx(sd_gapped)
        x0 == sd_gapped[lo].dpes
        x1 == sd_gapped[hi].dpes
        \* interpolate(method='index'): linear in dpes between the two anchors
        at(x) == RAdd(edge_bin_min_dndlogd_avg(sd_gapped),
                      RMul(RSub(edge_bin_max_dndlogd_avg(sd_gapped),
                                edge_bin_min_dndlogd_avg(sd_gapped)),
                           Frac(x - x0, x1 - x0)))
    IN  [i \in DOMAIN sd_gapped |->
            IF lo < i /\ i < hi /\ ~IsNum(sd_gapped[i].dndlogd)
            THEN [sd_gapped[i] EXCEPT !.dndlogd = at(sd_gapped[i].dpes)]
            ELSE sd_gapped[i]]

\* line 134: dn of every row from its density and its log width
DnFromDensity(sd) ==
    [i \in DOMAIN sd |->
        [sd[i] EXCEPT !.dn = RMul(sd[i].dndlogd,
                                  Frac(Log10(sd[i].dpes_upper) - Log10(sd[i].dpes_lower),
                                       Ticks))]]

interpolated_bins(lower, upper) ==
    [i \in DOMAIN lower |->
        [dpes |-> (lower[i] + upper[i]) \div 2, dpes_lower |-> lower[i],
         dpes_upper |-> upper[i], dn |-> NaN, dndlogd |-> NaN, flag |-> "interpolated"]]

GapDue == interpolate_gap /\ flag_gap

\* the merge run on request alone, whatever the ranges
MergeDueOnRequest == merge_overlap

MergeDue == merge_overlap /\ flag_overlap

\* lines 68-134.  round(nan) raises ValueError; so does a frame built from columns of
\* different lengths, which is what bin_num = 0 gives
InterpolateGap ==
    /\ pc = "classified"
    /\ GapDue
    /\ LET interpol_resolution == get_interpol_resolution(sd_smps, sd_aps)
           bounds == get_bin_boundaries_in_interval(Max(Uppers(sd_smps)),
                                                    Min(Lowers(sd_aps)),
                                                    interpol_resolution)
       IN  IF ~IsNum(interpol_resolution)
           THEN pc' = "error" /\ UNCHANGED sd_combined
           ELSE IF Len(bounds[1]) # Len(bounds[2])
           THEN pc' = "error" /\ UNCHANGED sd_combined
           ELSE /\ pc' = "interpolated"
                /\ sd_combined' =
                      DnFromDensity(interpolate_dndlogd_gap(
                          sort_values(sd_combined \o interpolated_bins(bounds[1], bounds[2]))))
    /\ UNCHANGED <<bin_mean_diameter, channel_resolution, bin_boundaries, in_smps,
                   in_aps, sd_smps, sd_aps, merge_overlap, interpolate_gap, flag_overlap,
                   flag_gap, aps_overlap, smps_overlap, s, merged_indices>>

(* ------------------ combine_SMPS_APS_sd: overlap merging --------------- *)
Width(b) == b.dpes_upper - b.dpes_lower

\* the rows of sd that the mask selects, each with its index label
Labelled(sd, mask) ==
    LET idx == SetToSortedSeq({i \in DOMAIN sd : mask[i]})
    IN  [k \in DOMAIN idx |->
            [Index |-> idx[k], dpes |-> sd[idx[k]].dpes,
             dpes_lower |-> sd[idx[k]].dpes_lower, dpes_upper |-> sd[idx[k]].dpes_upper,
             dn |-> sd[idx[k]].dn, dndlogd |-> sd[idx[k]].dndlogd,
             flag |-> sd[idx[k]].flag]]

FlagRows(sd, f) == {i \in DOMAIN sd : sd[i].flag = f}

\* lines 137-147
BeginMerge ==
    /\ pc \in {"classified", "interpolated"}
    /\ pc = "classified" => ~GapDue
    /\ MergeDue
    /\ LET min_aps_lower == Min({sd_combined[i].dpes_lower : i \in FlagRows(sd_combined, "aps")})
           max_smps_upper == Max({sd_combined[i].dpes_upper : i \in FlagRows(sd_combined, "smps")})
           smps_mask_overlap ==
               [i \in DOMAIN sd_combined |->
                   /\ sd_combined[i].flag = "smps"
                   /\ sd_combined[i].dpes_upper > min_aps_lower]
           aps_mask_overlap ==
               [i \in DOMAIN sd_combined |->
                   /\ sd_combined[i].flag = "aps"
                   /\ sd_combined[i].dpes_lower < max_smps_upper]
       IN  /\ aps_overlap' = Labelled(sd_combined, aps_mask_overlap)
           /\ smps_overlap' = Labelled(sd_combined, smps_mask_overlap)
    /\ merged_indices' = <<>>
    /\ s' = 1
    /\ pc' = "merging"
    /\ UNCHANGED <<bin_mean_diameter, channel_resolution, bin_boundaries, in_smps,
                   in_aps, sd_smps, sd_aps, merge_overlap, interpolate_gap, sd_combined,
                   flag_overlap, flag_gap>>

\* lines 152-153: the smps bin starts below every overlapping aps bin
IsLeftEdge(smps_bin, aps) == smps_bin.dpes_lower < Min(Lowers(aps))

\* line 176
IsStandard(smps_bin, aps) ==
    /\ smps_bin.dpes_lower > Min(Lowers(aps))
    /\ smps_bin.dpes_upper < Max(Uppers(aps))

\* line 153
LeftEdgeBins(smps_bin, aps) ==
    SelectSeq(aps, LAMBDA t : smps_bin.dpes_upper > t.dpes_lower)

\* line 177
StandardBins(smps_bin, aps) ==
    SelectSeq(aps, LAMBDA t : /\ smps_bin.dpes_lower < t.dpes_upper
                              /\ smps_bin.dpes_upper > t.dpes_lower)

Half == Frac(1, 2)

\* the shared part counted whole for both instruments
LeftEdgeDnSummed(smps_bin, aps_bin) == RAdd(smps_bin.dn, aps_bin.dn)

\* lines 149, 156-161 and 167-170
LeftEdgeDn(smps_bin, aps_bin) ==
    LET smps_bin_width == Width(smps_bin)
        aps_bin_width == Width(aps_bin)
        smps_only_width == aps_bin.dpes_lower - smps_bin.dpes_lower
        overlap_width == smps_bin.dpes_upper - aps_bin.dpes_lower
        aps_only_width == aps_bin.dpes_upper - smps_bin.dpes_upper
        dn1 == RMul(smps_bin.dn, Frac(smps_only_width, smps_bin_width))
        dn2 == RAdd(dn1, RMul(aps_bin.dn, Frac(aps_only_width, aps_bin_width)))
    IN  RAdd(dn2,
             RAdd(RMul(RMul(Half, smps_bin.dn), Frac(overlap_width, smps_bin_width)),
                  RMul(RMul(Half, aps_bin.dn), Frac(overlap_width, aps_bin_width))))

\* the moved bin with its centre left where it was
MergeLeftEdgeOldCentre(row, smps_bin, aps_bin) ==
    [row EXCEPT !.dpes_lower = smps_bin.dpes_lower,
                !.dpes_upper = aps_bin.dpes_upper,
                !.dpes = aps_bin.dpes,
                !.dn = LeftEdgeDn(smps_bin, aps_bin),
                !.flag = "merged"]

\* the moved bin with the sum of its boundaries for a centre
MergeLeftEdgeSumCentre(row, smps_bin, aps_bin) ==
    [row EXCEPT !.dpes_lower = smps_bin.dpes_lower,
                !.dpes_upper = aps_bin.dpes_upper,
                !.dpes = smps_bin.dpes_lower + aps_bin.dpes_upper,
                !.dn = LeftEdgeDn(smps_bin, aps_bin),
                !.flag = "merged"]

\* lines 164-171
MergeLeftEdge(row, smps_bin, aps_bin) ==
    [row EXCEPT !.dpes_lower = smps_bin.dpes_lower,
                !.dpes_upper = aps_bin.dpes_upper,
                !.dpes = (smps_bin.dpes_lower + aps_bin.dpes_upper) \div 2,
                !.dn = LeftEdgeDn(smps_bin, aps_bin),
                !.flag = "merged"]

\* lines 181-190
MergeContained(row, smps_bin, aps_bin) ==
    LET smps_bin_width == Width(smps_bin)
        aps_bin_width == Width(aps_bin)
        dn1 == RMul(aps_bin.dn, Frac(aps_bin_width - smps_bin_width, aps_bin_width))
        dn2 == RAdd(dn1,
                    RMul(RAdd(RMul(aps_bin.dn, Frac(smps_bin_width, aps_bin_width)),
                              smps_bin.dn),
                         Half))
    IN  [row EXCEPT !.dpes_lower = aps_bin.dpes_lower,
                    !.dpes_upper = aps_bin.dpes_upper,
                    !.dpes = aps_bin.dpes,
                    !.dn = dn2,
                    !.flag = "merged"]

\* lines 204-209 and 221-226, given the two widths of lines 200-201 or 217-218
MergeShare(row, smps_bin, aps_bin, aps_only_width, overlap_width) ==
    LET smps_bin_width == Width(smps_bin)
        aps_bin_width == Width(aps_bin)
        dn1 == RMul(aps_bin.dn, Frac(aps_only_width, aps_bin_width))
        dn2 == RAdd(dn1,
                    RMul(RAdd(RMul(aps_bin.dn, Frac(overlap_width, aps_bin_width)),
                              RMul(smps_bin.dn, Frac(overlap_width, smps_bin_width))),
                         Half))
    IN  [row EXCEPT !.dpes_lower = aps_bin.dpes_lower,
                    !.dpes_upper = aps_bin.dpes_upper,
                    !.dpes = aps_bin.dpes,
                    !.dn = dn2,
                    !.flag = "merged"]

\* lines 197-226
MergeStraddle(sd, smps_bin, first, second) ==
    LET sd1 == [sd EXCEPT ![first.Index] =
                    MergeShare(@, smps_bin, first,
                               smps_bin.dpes_lower - first.dpes_lower,
                               first.dpes_upper - smps_bin.dpes_lower)]
    IN  [sd1 EXCEPT ![second.Index] =
            MergeShare(@, smps_bin, second,
                       second.dpes_upper - smps_bin.dpes_upper,
                       smps_bin.dpes_upper - second.dpes_lower)]

\* lines 148-230, one pass of the loop; the assert of line 154 ends the call
MergeStep ==
    /\ pc = "merging"
    /\ s <= Len(smps_overlap)
    /\ LET smps_bin == smps_overlap[s]
           aps_bin == LeftEdgeBins(smps_bin, aps_overlap)
           aps_bins == StandardBins(smps_bin, aps_overlap)
       IN  IF IsLeftEdge(smps_bin, aps_overlap) /\ Len(aps_bin) # 1
           THEN /\ pc' = "error"
                /\ UNCHANGED <<sd_combined, merged_indices, s>>
           ELSE /\ pc' = pc
                /\ merged_indices' = Append(merged_indices, smps_bin.Index)
                /\ s' = s + 1
                /\ sd_combined' =
                      IF IsLeftEdge(smps_bin, aps_overlap)
                      THEN [sd_combined EXCEPT ![aps_bin[1].Index] =
                                MergeLeftEdge(@, smps_bin, aps_bin[1])]
                      ELSE IF IsStandard(smps_bin, aps_overlap) /\ Len(aps_bins) = 1
                      THEN [sd_combined EXCEPT ![aps_bins[1].Index] =
                                MergeContained(@, smps_bin, aps_bins[1])]
                      ELSE IF IsStandard(smps_bin, aps_overlap) /\ Len(aps_bins) = 2
                      THEN MergeStraddle(sd_combined, smps_bin, aps_bins[1], aps_bins[2])
                      ELSE sd_combined
    /\ UNCHANGED <<bin_mean_diameter, channel_resolution, bin_boundaries, in_smps,
                   in_aps, sd_smps, sd_aps, merge_overlap, interpolate_gap, flag_overlap,
                   flag_gap, aps_overlap, smps_overlap>>

\* sd.drop(labels)
drop(sd, labels) ==
    LET keep == SetToSortedSeq(DOMAIN sd \ Range(labels))
    IN  [k \in DOMAIN keep |-> sd[keep[k]]]

\* lines 232-233
DropAndSort ==
    /\ pc = "merging"
    /\ s > Len(smps_overlap)
    /\ sd_combined' = sort_values(drop(sd_combined, merged_indices))
    /\ pc' = "merged"
    /\ UNCHANGED <<bin_mean_diameter, channel_resolution, bin_boundaries, in_smps,
                   in_aps, sd_smps, sd_aps, merge_overlap, interpolate_gap, flag_overlap,
                   flag_gap, aps_overlap, smps_overlap, s, merged_indices>>

(* ------------------ combine_SMPS_APS_sd: density, return --------------- *)
\* content.calc_dXdlogd_from_dX(dX, bins_lower, bins_upper)
calc_dXdlogd_from_dX(dX, bins_lower, bins_upper) ==
    RDiv(dX, Frac(Log10(bins_upper) - Log10(bins_lower), Ticks))

\* every row taken for a modified one
IsModifiedAlways(row) == row.flag # ""

\* line 235
IsModified(row) == row.flag # "smps" /\ row.flag # "aps"

\* lines 235-239
Return ==
    /\ \/ pc = "merged"
       \/ pc = "interpolated" /\ ~MergeDue
       \/ pc = "classified" /\ ~GapDue /\ ~MergeDue
    /\ sd_combined' =
          [i \in DOMAIN sd_combined |->
              IF IsModified(sd_combined[i])
              THEN [sd_combined[i] EXCEPT !.dndlogd =
                        calc_dXdlogd_from_dX(sd_combined[i].dn, sd_combined[i].dpes_lower,
                                             sd_combined[i].dpes_upper)]
              ELSE sd_combined[i]]
    /\ pc' = "done"
    /\ UNCHANGED <<bin_mean_diameter, channel_resolution, bin_boundaries, in_smps,
                   in_aps, sd_smps, sd_aps, merge_overlap, interpolate_gap, flag_overlap,
                   flag_gap, aps_overlap, smps_overlap, s, merged_indices>>

Next ==
    \/ CalcBinBoundaries
    \/ Tag
    \/ Classify
    \/ InterpolateGap
    \/ BeginMerge
    \/ MergeStep
    \/ DropAndSort
    \/ Return

Spec == Init /\ [][Next]_vars

(* ------------------------- what the claims use ------------------------- *)
\* the branch of the merge loop that an overlapping smps bin takes
Shape(smps_bin, aps) ==
    IF IsLeftEdge(smps_bin, aps)
    THEN (IF Len(LeftEdgeBins(smps_bin, aps)) = 1 THEN "left_edge" ELSE "assert")
    ELSE IF IsStandard(smps_bin, aps) /\ Len(StandardBins(smps_bin, aps)) = 1
    THEN "contained"
    ELSE IF IsStandard(smps_bin, aps) /\ Len(StandardBins(smps_bin, aps)) = 2
    THEN "straddle"
    ELSE "unsupported"

\* the index labels of the aps bins that the smps bin is folded into
TargetsOf(smps_bin, aps) ==
    LET sh == Shape(smps_bin, aps)
    IN  IF sh = "left_edge" THEN {LeftEdgeBins(smps_bin, aps)[1].Index}
        ELSE IF sh \in {"contained", "straddle"}
        THEN {StandardBins(smps_bin, aps)[k].Index : k \in DOMAIN StandardBins(smps_bin, aps)}
        ELSE {}

ShapesSeen == {Shape(smps_overlap[k], aps_overlap) : k \in DOMAIN smps_overlap}

\* the merge loop has run to its end
MergeDone == pc \in {"merged", "done"} /\ MergeDue

AllSupported == ShapesSeen \subseteq {"left_edge", "contained", "straddle"}

MergedTargets == UNION {TargetsOf(smps_overlap[k], aps_overlap) : k \in DOMAIN smps_overlap}

DnOf(rows) == RSum([k \in DOMAIN rows |-> rows[k].dn])

\* count in the merged bins of the output
CountAfter == DnOf(SelectSeq(sd_combined, LAMBDA row : row.flag = "merged"))

\* count the same span held before: the target bins and the smps bins folded into them
CountBefore ==
    RAdd(DnOf(SelectSeq(aps_overlap, LAMBDA t : t.Index \in MergedTargets)),
         DnOf(smps_overlap))

Tagged(row, f) == [row EXCEPT !.flag = f]
WithFlag(sd, f) == [i \in DOMAIN sd |-> Tagged(sd[i], f)]

Touching ==
    /\ in_smps # <<>> /\ in_aps # <<>>
    /\ Max(Uppers(in_smps)) = Min(Lowers(in_aps))

WellFormed(row) == row.dpes_lower < row.dpes /\ row.dpes < row.dpes_upper

(* ------------------------------- claims -------------------------------- *)

\* C1, as stated: after a merge in which every overlapping smps bin took the
\* left-edge, contained or straddle branch, the count in the merged bins equals the
\* count of those aps bins plus the count of every smps bin folded in and dropped.
C1_CountConserved == (MergeDone /\ AllSupported) => CountAfter = CountBefore

\* C1, amended: under the same conditions the merge creates no count: the count in
\* the merged bins is at most what the target bins and the folded smps bins held,
\* and is less than it when they held any.
C1_NoCountCreated ==
    (MergeDone /\ AllSupported) =>
        /\ RLe(CountAfter, CountBefore)
        /\ RLt(Rat(0), CountBefore) => RLt(CountAfter, CountBefore)

C1_Witness ==
    /\ pc = "done" /\ MergeDue /\ AllSupported
    /\ {"left_edge", "straddle"} \subseteq ShapesSeen
    /\ RLt(Rat(0), CountAfter)

\* C2: whenever the call returns, the output is strictly ascending in dpes, so no
\* two bins share a dpes.
C2_SortedUnique ==
    pc = "done" =>
        \A i, j \in DOMAIN sd_combined : i < j => sd_combined[i].dpes < sd_combined[j].dpes

\* C3: an overlapping smps bin that takes none of the left-edge, contained or
\* straddle branches ends the call in an error; it is never put on the list of bins
\* to drop with its count folded nowhere.
C3_UnsupportedShapeRaises ==
    /\ \A k \in DOMAIN merged_indices : Shape(smps_overlap[k], aps_overlap) # "unsupported"
    /\ pc = "done" /\ MergeDue => "unsupported" \notin ShapesSeen

\* C4: with exactly one of the two inputs empty the call does not fail, and what
\* it returns is the other input, unchanged.
C4_EmptyPassThrough ==
    ((in_smps = <<>>) # (in_aps = <<>>)) =>
        /\ pc # "error"
        /\ pc = "done" => sd_combined = in_smps \o in_aps

\* C5: calc_bin_boundaries returns lower < center < upper with
\* upper / lower = 10^(1 / channel_resolution).
C5_BoundarySymmetry ==
    pc = "calculated" =>
        /\ RLt(bin_boundaries[1], Rat(bin_mean_diameter))
        /\ RLt(Rat(bin_mean_diameter), bin_boundaries[2])
        /\ RDiv(bin_boundaries[2], bin_boundaries[1]) = TenToInverse(channel_resolution, 1)

C5_Witness ==
    /\ pc = "calculated"
    /\ bin_mean_diameter > 1
    /\ channel_resolution = Frac(StepsPerDecade, 5)

\* C6: after a gap was filled, every bin of the two inputs is in the output with the
\* dpes, boundaries, dn, dndlogd and provenance it came with.
C6_GapFillKeepsOriginals ==
    (pc = "done" /\ GapDue) =>
        /\ \A i \in DOMAIN in_smps : Tagged(in_smps[i], "smps") \in Range(sd_combined)
        /\ \A i \in DOMAIN in_aps : Tagged(in_aps[i], "aps") \in Range(sd_combined)

\* the ranges touch, or there is a gap that is not to be filled, or an overlap
\* that is not to be merged
NoAction ==
    \/ Touching
    \/ flag_gap /\ ~interpolate_gap
    \/ flag_overlap /\ ~merge_overlap

\* C7: when no action applies, the output holds exactly the bins of the two inputs,
\* each with its dpes, boundaries, dn and dndlogd, under its source's provenance.
C7_PassThrough ==
    (pc = "done" /\ NoAction) =>
        sd_combined = WithFlag(in_smps, "smps") \o WithFlag(in_aps, "aps")

C7_Witness ==
    /\ pc = "done" /\ flag_overlap /\ ~merge_overlap /\ interpolate_gap
    /\ Len(sd_combined) >= 4
    /\ \E i \in DOMAIN in_smps :
          in_smps[i].dndlogd # calc_dXdlogd_from_dX(in_smps[i].dn, in_smps[i].dpes_lower,
                                                     in_smps[i].dpes_upper)

\* C8, as stated: the call leaves both of the caller's distributions as they were.
C8_InputsUntouched == sd_smps = in_smps /\ sd_aps = in_aps

\* C8, amended: the call writes the flag column of the caller's two distributions
\* ('smps', 'aps') and nothing else: their rows, dpes, boundaries, dn and dndlogd
\* stay as they were, through every step of the call.
C8_OnlyFlagWritten ==
    /\ sd_smps \in {in_smps, WithFlag(in_smps, "smps")}
    /\ sd_aps \in {in_aps, WithFlag(in_aps, "aps")}
    /\ pc \notin {"calc", "calculated", "start"} =>
          /\ sd_smps = WithFlag(in_smps, "smps")
          /\ sd_aps = WithFlag(in_aps, "aps")

C8_Witness ==
    /\ pc = "done" /\ MergeDue
    /\ "merged" \in {sd_combined[i].flag : i \in DOMAIN sd_combined}
    /\ sd_smps # in_smps

\* C9: every bin of the combined frame has dpes_lower < dpes < dpes_upper, after
\* gap filling and after every pass of the merge loop.
C9_WellFormed == \A i \in DOMAIN sd_combined : WellFormed(sd_combined[i])

\* a target bin whose lower boundary a left-edge merge has moved
Recentered(row) ==
    /\ row.flag = "merged"
    /\ \E k \in DOMAIN smps_overlap : row.dpes_lower = smps_overlap[k].dpes_lower

C9_Witness ==
    /\ pc = "merging" /\ s > 2
    /\ \E i \in DOMAIN sd_combined : Recentered(sd_combined[i])

\* the bins the engine produces: interpolated bins and recentered target bins
Produced(row) == row.flag = "interpolated" \/ Recentered(row)

\* C10, as stated: dpes^2 = dpes_lower * dpes_upper for the boundaries that
\* calc_bin_boundaries returns and for every bin the engine produces.
C10_GeometricMean ==
    /\ pc = "calculated" =>
          RMul(bin_boundaries[1], bin_boundaries[2]) = Rat(bin_mean_diameter * bin_mean_diameter)
    /\ \A i \in DOMAIN sd_combined :
          Produced(sd_combined[i]) =>
              sd_combined[i].dpes * sd_combined[i].dpes
                  = sd_combined[i].dpes_lower * sd_combined[i].dpes_upper

\* C10, amended: the centre is the arithmetic mean of the boundaries,
\* 2 * dpes = dpes_lower + dpes_upper, for the same bins.
C10_ArithmeticMean ==
    /\ pc = "calculated" =>
          RAdd(bin_boundaries[1], bin_boundaries[2]) = Rat(2 * bin_mean_diameter)
    /\ \A i \in DOMAIN sd_combined :
          Produced(sd_combined[i]) =>
              2 * sd_combined[i].dpes = sd_combined[i].dpes_lower + sd_combined[i].dpes_upper

C10_Witness ==
    /\ pc = "done" /\ MergeDue
    /\ \E i \in DOMAIN sd_combined :
          /\ Recentered(sd_combined[i])
          /\ sd_combined[i].dpes_upper - sd_combined[i].dpes_lower > 100

\* the overlapping smps bins that take the left-edge branch
LeftEdgeFolds == {k \in DOMAIN smps_overlap : Shape(smps_overlap[k], aps_overlap) = "left_edge"}

\* the row of the output is the target t as the left-edge fold of f left it:
\* lower boundary moved down to that of f, upper boundary kept, centre between them
ExtendedBy(row, f, t) ==
    /\ row.flag = "merged"
    /\ row.dpes_lower = f.dpes_lower
    /\ row.dpes_upper = t.dpes_upper
    /\ 2 * row.dpes = f.dpes_lower + t.dpes_upper

\* C11: folds accumulate, each applied to what the previous fold left of the target:
\* once the merge loop has run over supported shapes, the target of a left-edge fold
\* is in the output with the lower boundary and the centre that this fold gave it,
\* whichever smps bins were folded into the same target afterwards.
C11_FoldsAccumulate ==
    (MergeDone /\ AllSupported) =>
        \A k \in LeftEdgeFolds :
            \E i \in DOMAIN sd_combined :
                ExtendedBy(sd_combined[i], smps_overlap[k],
                           LeftEdgeBins(smps_overlap[k], aps_overlap)[1])

\* C12: every overlapping smps bin that starts below the smallest aps lower boundary
\* selects exactly one aps bin at line 153, so the assert of line 154 never fails.
C12_LeftEdgeSelectsOne ==
    \A k \in DOMAIN smps_overlap :
        IsLeftEdge(smps_overlap[k], aps_overlap) =>
            Len(LeftEdgeBins(smps_overlap[k], aps_overlap)) = 1

\* a gap has been filled
GapFilled == pc \in {"interpolated", "done"} /\ GapDue

\* mean density of the n bins of the output that end at row last
MeanOfLast(n, last) ==
    LET first == Max({1, last - n + 1})
    IN  RDiv(RSum([k \in 1..(last - first + 1) |-> sd_combined[first + k - 1].dndlogd]),
             Rat(last - first + 1))

\* mean density of the n bins of the output that start at row first
MeanOfFirst(n, first) ==
    LET last == Min({Len(sd_combined), first + n - 1})
    IN  RDiv(RSum([k \in 1..(last - first + 1) |-> sd_combined[first + k - 1].dndlogd]),
             Rat(last - first + 1))

\* C13: the low anchor of the gap interpolation is the mean density of exactly
\* edge_average_window bins, the smps edge bin and the bins right below it, and the
\* high anchor that of exactly edge_average_window bins, the aps edge bin and the
\* bins right above it (of fewer only where the instrument has fewer).
C13_WindowOfThree ==
    GapFilled =>
        /\ edge_bin_min_dndlogd_avg(sd_combined)
              = MeanOfLast(edge_average_window, edge_bin_min_idx(sd_combined))
        /\ edge_bin_max_dndlogd_avg(sd_combined)
              = MeanOfFirst(edge_average_window, edge_bin_max_idx(sd_combined))

RAbs(p) == <<Abs(p[1]), p[2]>>

\* the density on the straight line over log10(dpes) that joins the low anchor at the
\* smps edge bin to the high anchor at the aps edge bin, read at the centre x
OnLogLine(x) ==
    LET lo == sd_combined[edge_bin_min_idx(sd_combined)].dpes
        hi == sd_combined[edge_bin_max_idx(sd_combined)].dpes
    IN  RAdd(edge_bin_min_dndlogd_avg(sd_combined),
             RMul(RSub(edge_bin_max_dndlogd_avg(sd_combined),
                       edge_bin_min_dndlogd_avg(sd_combined)),
                  Frac(Log10(x) - Log10(lo), Log10(hi) - Log10(lo))))

\* what the fixed-point logarithm may be off by, as a share of the anchors' difference
LogTolerance == Frac(1, 20)

\* C14: after gap interpolation the density of every interpolated bin lies on the
\* straight line over log10(dpes) between the two smoothed anchors, to within the
\* tolerance of the logarithm.
C14_LinearInLogDiameter ==
    (pc = "interpolated") =>
        \A i \in DOMAIN sd_combined :
            sd_combined[i].flag = "interpolated" =>
                RLe(RAbs(RSub(sd_combined[i].dndlogd, OnLogLine(sd_combined[i].dpes))),
                    RMul(LogTolerance,
                         RAbs(RSub(edge_bin_max_dndlogd_avg(sd_combined),
                                   edge_bin_min_dndlogd_avg(sd_combined)))))

\* the interpolated bins of the output, in their order
Bridge == SelectSeq(sd_combined, LAMBDA row : row.flag = "interpolated")

gap_start == Max(Uppers(in_smps))
gap_end == Min(Lowers(in_aps))

\* round(resolution * decades of the gap)
bin_count ==
    Round(get_interpol_resolution(sd_smps, sd_aps)[1] * (Log10(gap_end) - Log10(gap_start)),
          Ticks)

LogWidth(row) == Log10(row.dpes_upper) - Log10(row.dpes_lower)

\* a boundary is an even integer, which is up to this many ticks off its place
RatioTolerance == Sub \div 10

\* bin_count bins that run from gap_start to gap_end without a break, all of one
\* log width (to what the integer boundaries resolve)
Tiles ==
    /\ Len(Bridge) = bin_count
    /\ Bridge # <<>> =>
          /\ Bridge[1].dpes_lower = gap_start
          /\ Bridge[Len(Bridge)].dpes_upper = gap_end
    /\ \A k \in 1..(Len(Bridge) - 1) : Bridge[k].dpes_upper = Bridge[k + 1].dpes_lower
    /\ \A j, k \in DOMAIN Bridge : Abs(LogWidth(Bridge[j]) - LogWidth(Bridge[k])) <= RatioTolerance

\* both instruments have the two bins that a channel resolution takes
TwoBinsEach == Len(in_smps) >= 2 /\ Len(in_aps) >= 2

\* C15: whenever a gap is to be filled, the call completes, also when the gap is so
\* narrow that bin_count rounds to 0, and the interpolated bins are bin_count bins
\* that tile the gap from gap_start to gap_end, contiguous and of equal log width.
C15_BridgeTilesGap ==
    (GapDue /\ TwoBinsEach) =>
        /\ pc # "error"
        /\ GapFilled => Tiles

Flags == {sd_combined[i].flag : i \in DOMAIN sd_combined}

\* C16: the gap flag and the overlap flag are computed once, from the inputs, and
\* are never both true; the output never holds an interpolated and a merged bin
\* together, and the merge loop never runs on a frame that holds interpolated bins.
C16_GapAndOverlapExclusive ==
    /\ ~(flag_gap /\ flag_overlap)
    /\ pc \in {"classified", "interpolated", "merging", "merged", "done"} =>
          /\ flag_overlap = (Max(Uppers(in_smps)) > Min(Lowers(in_aps)))
          /\ flag_gap = (Max(Uppers(in_smps)) < Min(Lowers(in_aps)))
    /\ ~({"interpolated", "merged"} \subseteq Flags)
    /\ pc \in {"merging", "merged"} => "interpolated" \notin Flags

C16_Witness ==
    /\ pc = "done" /\ merge_overlap /\ interpolate_gap /\ flag_gap
    /\ "interpolated" \in Flags
    /\ Len(in_smps) >= 2 /\ Len(in_aps) >= 2

=============================================================================
